---- MODULE Spec2Model ----
(***************************************************************************)
(* LoW -> SSIM converter (src/main_v1.py): the pipeline of main():         *)
(* extract_airport_codes_and_date_range, calculate_airport_utc_offsets,    *)
(* read_low_csv and write_ssim_with_segments.                              *)
(*                                                                         *)
(* Text is a sequence of one-character strings, so that padding,           *)
(* truncation and line lengths are computed and not assumed.  A UTC offset *)
(* (a float number of hours in the source) is an integer number of         *)
(* minutes, [minutes |-> n].  A datetime is a record [y, m, d, hh, mi].    *)
(***************************************************************************)
EXTENDS Integers, Sequences, FiniteSets, TLC

\* ------------------------------------------------------------------ bounds
\* Largest number of rows of an input file drawn from ChainPool.
MaxRows == 3

\* Largest number of rows of an input file drawn from FieldPool.
MaxFieldRows == 2

\* ------------------------------------------------------------------- state
VARIABLES
    file_exists,       \* whether LOW_FILENAME can be opened
    rows,              \* the rows of the LoW file
    has_leg_seq_col,   \* whether the file has a 'Leg Seq num' column
    libs_available,    \* AIRPORTSDATA_AVAILABLE and ZONEINFO_AVAILABLE
    now,               \* datetime.now()
    pc,                \* the position in main()
    run,               \* 1, or 2 for a second run on the same input
    prev_out,          \* the lines of the run before
    console,           \* the error lines printed by step 1 of main
    airport_offsets,   \* main: airport_offsets
    first_date,        \* main: first_date
    last_date,         \* main: last_date
    all_legs,          \* read_low_csv: all_legs
    shell_keys,        \* read_low_csv: the keys of shells, in insertion order
    shells,            \* read_low_csv: shells, each a sequence of positions in all_legs
    out_state,         \* the output file: "absent", "open" or "closed"
    out,               \* the lines written to the output file, without their newlines
    record_serial,     \* write_ssim_with_segments: record_serial
    processed_shells,  \* write_ssim_with_segments: processed_shells
    current_shell_id,  \* write_ssim_with_segments: current_shell_id
    idx,               \* write_ssim_with_segments: idx + 1 of the leg loop
    iterations,        \* history: the iterations of the while loop begun
    visits,            \* history: the shell of each iteration
    emitted,           \* history: the position in all_legs of each leg written
    onward,            \* history: next_leg of each leg written, 0 for None
    chain_heads        \* history: the shells a new chain was started with

vars == <<file_exists, rows, has_leg_seq_col, libs_available, now, pc, run, prev_out, console,
          airport_offsets, first_date, last_date, all_legs, shell_keys, shells,
          out_state, out, record_serial, processed_shells, current_shell_id, idx,
          iterations, visits, emitted, onward, chain_heads>>

inputs == <<file_exists, rows, has_leg_seq_col, libs_available, now>>

\* ------------------------------------------------------------- text helpers
\* None, where a datetime or an offset is expected
NoneVal == [none |-> TRUE]

Min(a, b) == IF a < b THEN a ELSE b

Rep(c, n) == [i \in 1..n |-> c]

Digits == <<"0","1","2","3","4","5","6","7","8","9">>

IsDigit(c) == \E i \in 1..10 : Digits[i] = c

DigitVal(c) == (CHOOSE i \in 1..10 : Digits[i] = c) - 1

AllDigits(s) == \A i \in 1..Len(s) : IsDigit(s[i])

\* int(s) of a string of decimal digits
RECURSIVE DecVal(_)
DecVal(s) ==
    IF Len(s) = 0 THEN 0
    ELSE 10 * DecVal(SubSeq(s, 1, Len(s) - 1)) + DigitVal(s[Len(s)])

\* str(n) for n >= 0
RECURSIVE str(_)
str(n) == IF n < 10 THEN <<Digits[n + 1]>> ELSE str(n \div 10) \o <<Digits[(n % 10) + 1]>>

Lower == <<"a","b","c","d","e","f","g","h","i","j","k","l","m",
           "n","o","p","q","r","s","t","u","v","w","x","y","z">>

Upper == <<"A","B","C","D","E","F","G","H","I","J","K","L","M",
           "N","O","P","Q","R","S","T","U","V","W","X","Y","Z">>

UpperChar(c) == IF \E i \in 1..26 : Lower[i] = c
                THEN Upper[CHOOSE i \in 1..26 : Lower[i] = c] ELSE c

\* str.upper()
upper(s) == [i \in 1..Len(s) |-> UpperChar(s[i])]

\* str.zfill(width): zeros on the left, never a truncation
zfill(s, width) == IF Len(s) >= width THEN s ELSE Rep("0", width - Len(s)) \o s

\* Faulty variant of pad_right: ljust without the truncation
pad_right_no_truncation(s, length) ==
    IF Len(s) >= length THEN s ELSE s \o Rep(" ", length - Len(s))

pad_right(s, length) ==
    LET t == SubSeq(s, 1, Min(Len(s), length))
    IN  t \o Rep(" ", length - Len(t))

pad_left(s, length, fill) ==
    LET t == IF Len(s) > length THEN SubSeq(s, Len(s) - length + 1, Len(s)) ELSE s
    IN  Rep(fill, length - Len(t)) \o t

ssim_time_field(t) == zfill(t, 4)

\* ------------------------------------------------------------------- dates
\* %b, as strftime writes it
MonthAbbr == <<<<"J","a","n">>,
               <<"F","e","b">>,
               <<"M","a","r">>,
               <<"A","p","r">>,
               <<"M","a","y">>,
               <<"J","u","n">>,
               <<"J","u","l">>,
               <<"A","u","g">>,
               <<"S","e","p">>,
               <<"O","c","t">>,
               <<"N","o","v">>,
               <<"D","e","c">>>>

IsLeap(y) == (y % 4 = 0 /\ y % 100 # 0) \/ y % 400 = 0

DaysInMonth(y, m) ==
    IF m = 2 THEN (IF IsLeap(y) THEN 29 ELSE 28)
    ELSE IF m \in {4, 6, 9, 11} THEN 30 ELSE 31

\* The pieces of s between occurrences of sep
RECURSIVE Split(_, _)
Split(s, sep) ==
    IF \A i \in 1..Len(s) : s[i] # sep THEN <<s>>
    ELSE LET k == CHOOSE i \in 1..Len(s) : s[i] = sep /\ \A j \in 1..(i - 1) : s[j] # sep
         IN  <<SubSeq(s, 1, k - 1)>> \o Split(SubSeq(s, k + 1, Len(s)), sep)

\* strptime directives; each gives the value, or -1 where the text does not match
Dir_d(t) == IF Len(t) \in {1, 2} /\ AllDigits(t) /\ DecVal(t) \in 1..31 THEN DecVal(t) ELSE -1

Dir_m(t) == IF Len(t) \in {1, 2} /\ AllDigits(t) /\ DecVal(t) \in 1..12 THEN DecVal(t) ELSE -1

Dir_y(t) ==
    IF Len(t) = 2 /\ AllDigits(t)
    THEN (IF DecVal(t) < 69 THEN 2000 + DecVal(t) ELSE 1900 + DecVal(t))
    ELSE -1

Dir_Y(t) == IF Len(t) = 4 /\ AllDigits(t) THEN DecVal(t) ELSE -1

Dir_b(t) ==
    IF \E i \in 1..12 : upper(MonthAbbr[i]) = upper(t)
    THEN CHOOSE i \in 1..12 : upper(MonthAbbr[i]) = upper(t)
    ELSE -1

\* datetime(y, m, d), or None where a directive failed or the day is not in the month
MkDate(y, m, d) ==
    IF y < 1 \/ m < 1 \/ d < 1 THEN NoneVal
    ELSE IF d > DaysInMonth(y, m) THEN NoneVal
    ELSE [y |-> y, m |-> m, d |-> d, hh |-> 0, mi |-> 0]

\* "%d%b%y" and "%d%b%Y": day, month name and year with nothing between them;
\* ylen is the number of digits of the year
ParseCompact(s, ylen) ==
    LET n == Len(s)
        dlen == n - 3 - ylen
    IN  IF dlen \notin {1, 2} THEN NoneVal
        ELSE MkDate(IF ylen = 2 THEN Dir_y(SubSeq(s, n - 1, n)) ELSE Dir_Y(SubSeq(s, n - 3, n)),
                    Dir_b(SubSeq(s, dlen + 1, dlen + 3)),
                    Dir_d(SubSeq(s, 1, dlen)))

\* strptime(s, fmt) for the eight formats of date_formats, by their position
strptime(s, k) ==
    LET sl == Split(s, "/")
        da == Split(s, "-")
    IN  CASE k = 1 -> ParseCompact(s, 2)
          [] k = 2 -> IF Len(sl) # 3 THEN NoneVal
                      ELSE MkDate(Dir_Y(sl[3]), Dir_m(sl[1]), Dir_d(sl[2]))
          [] k = 3 -> IF Len(sl) # 3 THEN NoneVal
                      ELSE MkDate(Dir_y(sl[3]), Dir_m(sl[1]), Dir_d(sl[2]))
          [] k = 4 -> IF Len(da) # 3 THEN NoneVal
                      ELSE MkDate(Dir_y(da[3]), Dir_b(da[2]), Dir_d(da[1]))
          [] k = 5 -> IF Len(sl) # 3 THEN NoneVal
                      ELSE MkDate(Dir_Y(sl[3]), Dir_m(sl[2]), Dir_d(sl[1]))
          [] k = 6 -> IF Len(da) # 3 THEN NoneVal
                      ELSE MkDate(Dir_Y(da[1]), Dir_m(da[2]), Dir_d(da[3]))
          [] k = 7 -> ParseCompact(s, 4)
          [] k = 8 -> IF Len(da) # 3 THEN NoneVal
                      ELSE MkDate(Dir_Y(da[3]), Dir_m(da[1]), Dir_d(da[2]))

\* str.strip() of the blanks at both ends
RECURSIVE strip(_)
strip(s) ==
    IF Len(s) > 0 /\ s[1] = " " THEN strip(SubSeq(s, 2, Len(s)))
    ELSE IF Len(s) > 0 /\ s[Len(s)] = " " THEN strip(SubSeq(s, 1, Len(s) - 1))
    ELSE s

NumDateFormats == 8

\* The loop over date_formats from format k on: the first format that parses
RECURSIVE TryFormats(_, _)
TryFormats(s, k) ==
    IF k > NumDateFormats THEN NoneVal
    ELSE IF strptime(s, k) # NoneVal THEN strptime(s, k)
    ELSE TryFormats(s, k + 1)

\* Faulty variant of parse_flexible_date: a default date where no format parses
parse_flexible_date_default(date_string) ==
    IF strip(date_string) = <<>> THEN NoneVal
    ELSE IF TryFormats(strip(date_string), 1) = NoneVal
         THEN [y |-> 2000, m |-> 1, d |-> 1, hh |-> 0, mi |-> 0]
    ELSE TryFormats(strip(date_string), 1)

parse_flexible_date(date_string) ==
    IF strip(date_string) = <<>> THEN NoneVal
    ELSE TryFormats(strip(date_string), 1)

\* The order of two datetimes
DtKey(dt) == (((dt.y * 13 + dt.m) * 32 + dt.d) * 24 + dt.hh) * 60 + dt.mi

MinDt(ds) == CHOOSE x \in ds : \A z \in ds : DtKey(x) <= DtKey(z)

MaxDt(ds) == CHOOSE x \in ds : \A z \in ds : DtKey(x) >= DtKey(z)

\* dt + timedelta(days=1)
PlusOneDay(dt) ==
    IF dt.d < DaysInMonth(dt.y, dt.m) THEN [dt EXCEPT !.d = dt.d + 1]
    ELSE IF dt.m < 12 THEN [dt EXCEPT !.d = 1, !.m = dt.m + 1]
    ELSE [dt EXCEPT !.d = 1, !.m = 1, !.y = dt.y + 1]

\* dt.strftime('%d%b%y').upper()
strftime_dby(dt) ==
    zfill(str(dt.d), 2) \o upper(MonthAbbr[dt.m]) \o zfill(str(dt.y % 100), 2)

\* dt.strftime('%u'): the ISO weekday, 1 (Monday) to 7 (Sunday)
IsoWeekday(dt) ==
    LET t == <<0, 3, 2, 5, 0, 3, 5, 1, 4, 6, 2, 4>>
        yy == IF dt.m < 3 THEN dt.y - 1 ELSE dt.y
        w == (yy + yy \div 4 - yy \div 100 + yy \div 400 + t[dt.m] + dt.d) % 7
    IN  IF w = 0 THEN 7 ELSE w

format_ssim_date(dt) == IF dt # NoneVal THEN strftime_dby(dt) ELSE Rep(" ", 7)

\* int(s): the value of a string of digits, or -1 for the ValueError of any other
\* string (signs, blanks and underscores, which int() also accepts, are not modelled)
IntOrError(s) == IF Len(s) > 0 /\ AllDigits(s) THEN DecVal(s) ELSE -1

\* date_obj.replace(hour=int(t[:2]), minute=int(t[2:])) inside try/except:
\* None when int() or replace() raises
CombineDateTime(date_obj, t) ==
    LET h == IntOrError(SubSeq(t, 1, 2))
        mn == IntOrError(SubSeq(t, 3, Len(t)))
    IN  IF date_obj = NoneVal THEN NoneVal
        ELSE IF h \in 0..23 /\ mn \in 0..59
             THEN [date_obj EXCEPT !.hh = h, !.mi = mn]
             ELSE NoneVal

\* ---------------------------------------------------------------- timezones
\* A UTC offset of n minutes (the source's float hours times 60)
Off(n) == [minutes |-> n]

eastern_airports ==
    {<<"A","T","L">>, <<"D","T","W">>, <<"C","H","A">>, <<"C","L","E">>, <<"C","V","G">>,
     <<"P","I","T">>, <<"R","I","C">>, <<"O","R","F">>, <<"B","W","I">>, <<"B","D","L">>,
     <<"P","H","L">>, <<"B","U","F">>, <<"J","F","K">>, <<"L","G","A">>, <<"E","W","R">>,
     <<"B","O","S">>, <<"M","I","A">>, <<"F","L","L">>, <<"T","P","A">>, <<"M","C","O">>,
     <<"T","L","H">>, <<"C","H","S">>, <<"G","R","R">>, <<"R","S","W">>, <<"S","R","Q">>}

central_airports ==
    {<<"M","E","M">>, <<"M","S","P">>, <<"O","R","D">>, <<"D","F","W">>, <<"M","C","I">>,
     <<"S","T","L">>, <<"M","S","Y">>, <<"I","A","H">>, <<"H","O","U">>, <<"S","A","T">>,
     <<"A","U","S">>, <<"O","K","C">>, <<"T","U","L">>, <<"L","I","T">>, <<"B","H","M">>,
     <<"M","O","B">>, <<"H","S","V">>}

mountain_airports ==
    {<<"D","E","N">>, <<"P","H","X">>, <<"S","L","C">>, <<"A","B","Q">>, <<"B","O","I">>,
     <<"B","I","L">>, <<"G","J","T">>, <<"C","O","S">>}

pacific_airports ==
    {<<"L","A","X">>, <<"S","F","O">>, <<"S","E","A">>, <<"L","A","S">>, <<"S","A","N">>,
     <<"P","D","X">>, <<"S","M","F">>, <<"O","A","K">>, <<"S","J","C">>}

PHX == <<"P","H","X">>

\* Faulty variant of is_dst: daylight saving begins with April
is_dst_from_april(reference_date) == reference_date.m >= 4 /\ reference_date.m <= 10

is_dst(reference_date) == reference_date.m >= 3 /\ reference_date.m <= 10

\* Faulty variant of estimate_us_timezone_offset: Phoenix follows the Mountain rule
estimate_us_timezone_offset_no_phoenix(airport_code, reference_date) ==
    IF airport_code \in eastern_airports
    THEN (IF is_dst(reference_date) THEN Off(-240) ELSE Off(-300))
    ELSE IF airport_code \in central_airports
    THEN (IF is_dst(reference_date) THEN Off(-300) ELSE Off(-360))
    ELSE IF airport_code \in mountain_airports
    THEN (IF is_dst(reference_date) THEN Off(-360) ELSE Off(-420))
    ELSE IF airport_code \in pacific_airports
    THEN (IF is_dst(reference_date) THEN Off(-420) ELSE Off(-480))
    ELSE (IF is_dst(reference_date) THEN Off(-240) ELSE Off(-300))

\* Faulty variant of estimate_us_timezone_offset: no offset for a code of no zone set
estimate_us_timezone_offset_known_only(airport_code, reference_date) ==
    IF airport_code \in eastern_airports
    THEN (IF is_dst(reference_date) THEN Off(-240) ELSE Off(-300))
    ELSE IF airport_code \in central_airports
    THEN (IF is_dst(reference_date) THEN Off(-300) ELSE Off(-360))
    ELSE IF airport_code \in mountain_airports
    THEN (IF airport_code = PHX THEN Off(-420)
          ELSE IF is_dst(reference_date) THEN Off(-360) ELSE Off(-420))
    ELSE IF airport_code \in pacific_airports
    THEN (IF is_dst(reference_date) THEN Off(-420) ELSE Off(-480))
    ELSE NoneVal

estimate_us_timezone_offset(airport_code, reference_date) ==
    IF airport_code \in eastern_airports
    THEN (IF is_dst(reference_date) THEN Off(-240) ELSE Off(-300))
    ELSE IF airport_code \in central_airports
    THEN (IF is_dst(reference_date) THEN Off(-300) ELSE Off(-360))
    ELSE IF airport_code \in mountain_airports
    THEN (IF airport_code = PHX THEN Off(-420)
          ELSE IF is_dst(reference_date) THEN Off(-360) ELSE Off(-420))
    ELSE IF airport_code \in pacific_airports
    THEN (IF is_dst(reference_date) THEN Off(-420) ELSE Off(-480))
    ELSE (IF is_dst(reference_date) THEN Off(-240) ELSE Off(-300))

\* airportsdata.load('IATA'): the zone of an airport, for the airports of the
\* data set that the inputs of this model use; any other code has no entry
AirportsTz ==
    {<<<<"J","F","K">>, "America/New_York">>,
     <<<<"A","T","L">>, "America/New_York">>,
     <<<<"P","H","X">>, "America/Phoenix">>}

HasTz(code) == \E e \in AirportsTz : e[1] = code

TzOf(code) == (CHOOSE e \in AirportsTz : e[1] = code)[2]

\* The n-th Sunday of month m of year y
NthSunday(y, m, n) ==
    LET first == CHOOSE d \in 1..7 :
                     IsoWeekday([y |-> y, m |-> m, d |-> d, hh |-> 0, mi |-> 0]) = 7
    IN  first + 7 * (n - 1)

\* ZoneInfo(tz).utcoffset(dt) of a naive local datetime: US daylight saving runs
\* from 02:00 on the second Sunday of March to 02:00 on the first Sunday of
\* November; America/Phoenix keeps standard time
ZoneDst(dt) ==
    LET k == DtKey(dt)
        start == DtKey([y |-> dt.y, m |-> 3, d |-> NthSunday(dt.y, 3, 2), hh |-> 2, mi |-> 0])
        stop == DtKey([y |-> dt.y, m |-> 11, d |-> NthSunday(dt.y, 11, 1), hh |-> 2, mi |-> 0])
    IN  k >= start /\ k < stop

tz_utcoffset(tz, dt) ==
    IF tz = "America/Phoenix" THEN Off(-420)
    ELSE IF ZoneDst(dt) THEN Off(-240) ELSE Off(-300)

\* One entry of the table that calculate_airport_utc_offsets builds
OffsetFor(code, reference_date, libs) ==
    IF libs /\ HasTz(code) THEN tz_utcoffset(TzOf(code), reference_date)
    ELSE estimate_us_timezone_offset(code, reference_date)

format_utc_offset(offset) ==
    IF offset = NoneVal THEN <<"0","0","0","0">>
    ELSE LET sign == IF offset.minutes < 0 THEN "-" ELSE "+"
             abs_offset == IF offset.minutes < 0 THEN -offset.minutes ELSE offset.minutes
             hours == abs_offset \div 60
             mins == abs_offset % 60
         IN  <<sign>> \o zfill(str(hours), 2) \o zfill(str(mins), 2)

\* ----------------------------------------------------------------- records
ZeroLine == Rep("0", 200)

\* The Type-1 header: the banner, blanks, and the serial block
Header1 ==
    <<"1","A","I","R","L","I","N","E"," ","S","T","A","N","D","A","R","D"," ","S","C","H","E","D","U","L","E"," ">>
    \o <<"D","A","T","A"," ","S","E","T">>
    \o Rep(" ", 156) \o <<"0","0","1","0","0","0","0","0","1">>

\* The Type-2 header, in time zone mode 'L'
Header2(first_op_date, last_op_date, today_date) ==
    pad_right(<<"2","L","D","L"," "," ","0","0","0","8"," "," "," "," ">>
              \o strftime_dby(first_op_date) \o strftime_dby(last_op_date)
              \o strftime_dby(today_date) \o Rep(" ", 36)
              \o <<"P","C","r","e","a","t","e","d"," ","b","y"," ","P","y","t","h","o","n"," ">>
              \o <<"L","o","W","-","t","o","-","S","S","I","M"," ","C","o","n","v","e","r","t","e","r">>, 188)
    \o <<"E","N","1","1","4","0","0","0","0","0","0","2">>

\* leg.get('Leg Seq num', '1'): the default stands in only for a missing column
raw_leg_seq_num(leg, has_col) == IF has_col THEN leg.LegSeqNum ELSE <<"1">>

\* The onward airline and flight number; next_leg is a leg or None
raw_onward_airline(next_leg) == IF next_leg # NoneVal THEN next_leg.Aln ELSE <<>>

raw_onward_fltno(next_leg) == IF next_leg # NoneVal THEN next_leg.FltNum ELSE <<>>

Type3Record(leg, next_leg, has_col, serial) ==
    LET raw_dep_dt == leg.DeptDateTime
        raw_dep_date_str == format_ssim_date(raw_dep_dt)
        raw_day_of_week == IF raw_dep_dt # NoneVal THEN str(IsoWeekday(raw_dep_dt)) ELSE <<"1">>
        formatted_dep_time == ssim_time_field(leg.DeptTime)
        formatted_arr_time == ssim_time_field(leg.ArvlTime)
        formatted_dep_offset == format_utc_offset(leg.DeptUTCOffset)
        formatted_arr_offset == format_utc_offset(leg.ArvlUTCOffset)
        formatted_period_of_op == raw_dep_date_str \o raw_dep_date_str
        rec == pad_right(<<"3">>, 1)
               \o pad_right(<<>>, 1)
               \o pad_right(leg.Aln, 3)
               \o pad_left(leg.FltNum, 4, " ")
               \o pad_left(leg.LineNum, 2, "0")
               \o pad_left(raw_leg_seq_num(leg, has_col), 2, "0")
               \o pad_right(leg.ServiceType, 1)
               \o pad_right(formatted_period_of_op, 14)
               \o pad_left(raw_day_of_week, 7, " ")
               \o pad_right(<<>>, 1)
               \o pad_right(leg.DeptSta, 3)
               \o pad_right(formatted_dep_time, 4)
               \o pad_right(formatted_dep_time, 4)
               \o pad_right(formatted_dep_offset, 5)
               \o pad_right(<<>>, 2)
               \o pad_right(leg.ArvlSta, 3)
               \o pad_right(formatted_arr_time, 4)
               \o pad_right(formatted_arr_time, 4)
               \o pad_right(formatted_arr_offset, 5)
               \o pad_right(<<>>, 2)
               \o pad_right(leg.Equip, 3)
               \o pad_right(<<>>, 23)
               \o pad_right(<<>>, 3)
               \o pad_right(<<>>, 36)
               \o pad_right(raw_onward_airline(next_leg), 3)
               \o pad_left(raw_onward_fltno(next_leg), 4, " ")
               \o pad_left(<<>>, 1, " ")
               \o pad_left(<<>>, 1, " ")
               \o pad_right(<<>>, 26)
               \o pad_right(leg.ACConfig \o <<"V","V","1","0">>, 20)
               \o pad_right(<<>>, 2)
               \o pad_left(str(serial), 6, "0")
    IN  pad_right(rec, 200)

Type4Record(leg, has_col, serial) ==
    LET seg == pad_right(<<"4">>, 1)
               \o pad_right(<<>>, 1)
               \o pad_right(leg.Aln, 3)
               \o pad_left(leg.FltNum, 4, " ")
               \o pad_left(leg.LineNum, 2, "0")
               \o pad_left(raw_leg_seq_num(leg, has_col), 2, "0")
               \o pad_right(leg.ServiceType, 1)
               \o pad_right(<<>>, 13)
               \o pad_right(<<>>, 1)
               \o pad_right(<<"A">>, 1)
               \o pad_right(<<"B">>, 1)
               \o pad_left(<<"9","9","7">>, 3, "0")
               \o pad_right(leg.DeptSta, 3)
               \o pad_right(leg.ArvlSta, 3)
               \o pad_right(leg.ReasonCode, 155)
               \o pad_left(str(serial), 6, "0")
    IN  pad_right(seg, 200)

Type5Record(today_date, serial) ==
    LET las == pad_right(<<"5">>, 1)
               \o pad_right(<<>>, 1)
               \o pad_right(<<"D","L">>, 3)
               \o pad_left(strftime_dby(today_date), 7, " ")
               \o pad_left(<<>>, 175, " ")
               \o pad_left(<<"0","0","0","9","9","9">>, 6, " ")
               \o pad_left(<<"E">>, 1, " ")
               \o pad_left(str(serial), 6, "0")
    IN  pad_right(las, 200)

\* ------------------------------------------------------------ reading input
\* A set in some order of iteration
RECURSIVE SetToSeq(_)
SetToSeq(S) ==
    IF S = {} THEN <<>>
    ELSE LET x == CHOOSE x \in S : TRUE IN <<x>> \o SetToSeq(S \ {x})

Reverse(s) == [i \in 1..Len(s) |-> s[Len(s) + 1 - i]]

\* extract_airport_codes_and_date_range: the codes, without ''
AirportCodes(rs) ==
    ({upper(rs[i].DeptSta) : i \in 1..Len(rs)} \cup {upper(rs[i].ArvlSta) : i \in 1..Len(rs)})
    \ {<<>>}

\* extract_airport_codes_and_date_range: all_dates, as a set
AllDates(rs) ==
    ({parse_flexible_date(rs[i].DeptDate) : i \in 1..Len(rs)}
     \cup {parse_flexible_date(rs[i].ArvlDate) : i \in 1..Len(rs)})
    \ {NoneVal}

ScheduleFirstDate(all_dates, clock) == IF all_dates # {} THEN MinDt(all_dates) ELSE clock

ScheduleLastDate(all_dates, clock) ==
    IF all_dates # {} THEN MaxDt(all_dates) ELSE PlusOneDay(clock)

\* calculate_airport_utc_offsets: the dict filled code by code, in the order the
\* set of codes is iterated
RECURSIVE calculate_airport_utc_offsets(_, _, _)
calculate_airport_utc_offsets(order, reference_date, libs) ==
    IF Len(order) = 0 THEN <<>>
    ELSE LET code == order[Len(order)]
             offsets == calculate_airport_utc_offsets(SubSeq(order, 1, Len(order) - 1),
                                                      reference_date, libs)
         IN  (code :> OffsetFor(code, reference_date, libs)) @@ offsets

\* Faulty variant of lookup_offset: the code is looked up as the row spells it
lookup_offset_as_spelled(table, sta) ==
    IF sta \in DOMAIN table THEN table[sta] ELSE NoneVal

\* airport_offsets.get(row[...].upper())
lookup_offset(table, sta) ==
    IF upper(sta) \in DOMAIN table THEN table[upper(sta)] ELSE NoneVal

\* Faulty variant of MakeLeg: a side that fails takes the other side's date-time with it
MakeLeg_both_or_none(row, table) ==
    LET dept_time == zfill(row.DeptTime, 4)
        arvl_time == zfill(row.ArvlTime, 4)
        dept_dt == CombineDateTime(parse_flexible_date(row.DeptDate), dept_time)
        arvl_dt == CombineDateTime(parse_flexible_date(row.ArvlDate), arvl_time)
        both == dept_dt # NoneVal /\ arvl_dt # NoneVal
    IN  [Aln |-> row.Aln, FltNum |-> row.FltNum, LineNum |-> row.LineNum,
         LegSeqNum |-> row.LegSeqNum, ServiceType |-> row.ServiceType,
         DeptSta |-> row.DeptSta, ArvlSta |-> row.ArvlSta,
         DeptDate |-> row.DeptDate, ArvlDate |-> row.ArvlDate,
         Equip |-> row.Equip, ACConfig |-> row.ACConfig, ReasonCode |-> row.ReasonCode,
         DeptDateTime |-> IF both THEN dept_dt ELSE NoneVal,
         ArvlDateTime |-> IF both THEN arvl_dt ELSE NoneVal,
         DeptUTCOffset |-> lookup_offset(table, row.DeptSta),
         ArvlUTCOffset |-> lookup_offset(table, row.ArvlSta),
         DeptTime |-> dept_time, ArvlTime |-> arvl_time]

\* read_low_csv: the leg made of one row
MakeLeg(row, table) ==
    LET dept_time == zfill(row.DeptTime, 4)
        arvl_time == zfill(row.ArvlTime, 4)
    IN  [Aln |-> row.Aln, FltNum |-> row.FltNum, LineNum |-> row.LineNum,
         LegSeqNum |-> row.LegSeqNum, ServiceType |-> row.ServiceType,
         DeptSta |-> row.DeptSta, ArvlSta |-> row.ArvlSta,
         DeptDate |-> row.DeptDate, ArvlDate |-> row.ArvlDate,
         Equip |-> row.Equip, ACConfig |-> row.ACConfig, ReasonCode |-> row.ReasonCode,
         DeptDateTime |-> CombineDateTime(parse_flexible_date(row.DeptDate), dept_time),
         ArvlDateTime |-> CombineDateTime(parse_flexible_date(row.ArvlDate), arvl_time),
         DeptUTCOffset |-> lookup_offset(table, row.DeptSta),
         ArvlUTCOffset |-> lookup_offset(table, row.ArvlSta),
         DeptTime |-> dept_time, ArvlTime |-> arvl_time]

\* The rotation ids of the rows, each once, in the order of first occurrence
RECURSIVE FirstSeen(_)
FirstSeen(rs) ==
    IF Len(rs) = 0 THEN <<>>
    ELSE LET before == FirstSeen(SubSeq(rs, 1, Len(rs) - 1))
             id == rs[Len(rs)].LineNum
         IN  IF \E i \in 1..Len(before) : before[i] = id THEN before ELSE Append(before, id)

\* Faulty variant of ShellKeys: a map without an order of its own, iterated differently
\* in the second run
ShellKeys_unordered(rs) == IF run = 2 THEN Reverse(FirstSeen(rs)) ELSE FirstSeen(rs)

\* The keys of the shells dict as it is iterated: a dict keeps insertion order
ShellKeys(rs) == FirstSeen(rs)

\* The legs of one shell as appended: the positions in all_legs, in row order
RECURSIVE ShellRows(_, _, _)
ShellRows(rs, id, n) ==
    IF n = 0 THEN <<>>
    ELSE IF rs[n].LineNum = id THEN Append(ShellRows(rs, id, n - 1), n)
    ELSE ShellRows(rs, id, n - 1)

\* The sort key int(x.get("Leg Seq num", "1")); -1 stands for the ValueError
SortKey(leg, has_col) == IF has_col THEN IntOrError(leg.LegSeqNum) ELSE 1

\* Faulty variant of StableSort: the legs stay in the order of the rows
StableSort_unsorted(s, legs, has_col) == s

\* list.sort(key=...): stable, ascending
RECURSIVE StableSort(_, _, _)
StableSort(s, legs, has_col) ==
    IF Len(s) <= 1 THEN s
    ELSE LET front == StableSort(SubSeq(s, 1, Len(s) - 1), legs, has_col)
             x == s[Len(s)]
             k == SortKey(legs[x], has_col)
             keep == {i \in 1..Len(front) : SortKey(legs[front[i]], has_col) <= k}
             p == IF keep = {} THEN 0 ELSE CHOOSE i \in keep : \A j \in keep : j <= i
         IN  SubSeq(front, 1, p) \o <<x>> \o SubSeq(front, p + 1, Len(front))

\* Whether the sort of read_low_csv raises: a leg keeps the 'Leg Seq num' of its row
SortRaises(rs, has_col) == \E i \in 1..Len(rs) : SortKey(rs[i], has_col) = -1

\* find_operation_date_range in mode 'L': the operation dates, as a set
OperationDates(legs) ==
    ({legs[i].DeptDateTime : i \in 1..Len(legs)} \cup {legs[i].ArvlDateTime : i \in 1..Len(legs)})
    \ {NoneVal}

first_op_date(legs, clock) ==
    IF OperationDates(legs) # {} THEN MinDt(OperationDates(legs)) ELSE clock

last_op_date(legs, clock) ==
    IF OperationDates(legs) # {} THEN MaxDt(OperationDates(legs)) ELSE PlusOneDay(clock)

\* ------------------------------------------------------------------ chaining
\* if x: of a shell id or None
Truthy(x) == x # NoneVal /\ x.id # <<>>

RECURSIVE FindFrom(_, _, _, _, _, _)
FindFrom(keys, shell_map, legs, processed, arrival_airport, k) ==
    IF k > Len(keys) THEN NoneVal
    ELSE IF keys[k] \in processed
         THEN FindFrom(keys, shell_map, legs, processed, arrival_airport, k + 1)
    ELSE IF Len(shell_map[keys[k]]) = 0
         THEN FindFrom(keys, shell_map, legs, processed, arrival_airport, k + 1)
    ELSE IF upper(legs[shell_map[keys[k]][1]].DeptSta) = upper(arrival_airport)
         THEN [id |-> keys[k]]
    ELSE FindFrom(keys, shell_map, legs, processed, arrival_airport, k + 1)

\* Faulty variant of find_connecting_shell: processed shells are not skipped
find_connecting_shell_any(keys, shell_map, legs, processed, arrival_airport) ==
    FindFrom(keys, shell_map, legs, {}, arrival_airport, 1)

find_connecting_shell(keys, shell_map, legs, processed, arrival_airport) ==
    FindFrom(keys, shell_map, legs, processed, arrival_airport, 1)

\* [s for s in shells.keys() if s not in processed_shells]
Unprocessed(keys, processed) == SelectSeq(keys, LAMBDA s : s \notin processed)

\* ------------------------------------------------------------------- inputs
\* One row of the LoW file, by its columns: Aln, Flt Num, Line Num, Leg Seq num,
\* Service Type, Dept Sta, Arvl Sta, Dept Date, Arvl Date, Dept Time, Arvl Time,
\* Equip, AC Config, REASON CODE
Row(aln, flt, line, seq, svc, dep, arr, ddate, adate, dtime, atime, equip, config, reason) ==
    [Aln |-> aln, FltNum |-> flt, LineNum |-> line, LegSeqNum |-> seq, ServiceType |-> svc,
     DeptSta |-> dep, ArvlSta |-> arr, DeptDate |-> ddate, ArvlDate |-> adate,
     DeptTime |-> dtime, ArvlTime |-> atime, Equip |-> equip, ACConfig |-> config,
     ReasonCode |-> reason]

\* Rows that differ in rotation id, leg sequence, airports and flight: rotations
\* that connect, tie, do not connect, close on themselves, a rotation with the
\* empty id, a second leg, and a leg sequence that is no number
ChainPool ==
    {Row(<<"D","L">>, <<"1","0","0">>, <<"1">>, <<"1">>, <<"J">>,
        <<"J","F","K">>, <<"A","T","L">>, <<"2","0","D","e","c","2","5">>, <<"2","0","D","e","c","2","5">>,
        <<"9","3","0">>, <<"1","1","4","5">>, <<"7","3","J">>, <<"F","2","0","Y","1","4","0">>,
        <<"C","R","W","B">>),
     Row(<<"A","A">>, <<"2","0","0">>, <<"2">>, <<"1">>, <<"J">>,
        <<"A","T","L">>, <<"J","F","K">>, <<"2","0","D","e","c","2","5">>, <<"2","0","D","e","c","2","5">>,
        <<"9","3","0">>, <<"1","1","4","5">>, <<"7","3","J">>, <<"F","2","0","Y","1","4","0">>,
        <<"C","R","W","B">>),
     Row(<<"U","A">>, <<"3","0","0">>, <<"3">>, <<"1">>, <<"J">>,
        <<"a","t","l">>, <<"P","H","X">>, <<"2","0","D","e","c","2","5">>, <<"2","0","D","e","c","2","5">>,
        <<"9","3","0">>, <<"1","1","4","5">>, <<"7","3","J">>, <<"F","2","0","Y","1","4","0">>,
        <<"C","R","W","B">>),
     Row(<<"W","N">>, <<"4","0","0">>, <<>>, <<"1">>, <<"J">>,
        <<"A","T","L">>, <<"J","F","K">>, <<"2","0","D","e","c","2","5">>, <<"2","0","D","e","c","2","5">>,
        <<"9","3","0">>, <<"1","1","4","5">>, <<"7","3","J">>, <<"F","2","0","Y","1","4","0">>,
        <<"C","R","W","B">>),
     Row(<<"D","L">>, <<"1","5","0">>, <<"1">>, <<"2">>, <<"J">>,
        <<"A","T","L">>, <<"J","F","K">>, <<"2","0","D","e","c","2","5">>, <<"2","0","D","e","c","2","5">>,
        <<"9","3","0">>, <<"1","1","4","5">>, <<"7","3","J">>, <<"F","2","0","Y","1","4","0">>,
        <<"C","R","W","B">>),
     Row(<<"A","A">>, <<"2","5","0">>, <<"2">>, <<"x">>, <<"J">>,
        <<"J","F","K">>, <<"A","T","L">>, <<"2","0","D","e","c","2","5">>, <<"2","0","D","e","c","2","5">>,
        <<"9","3","0">>, <<"1","1","4","5">>, <<"7","3","J">>, <<"F","2","0","Y","1","4","0">>,
        <<"C","R","W","B">>)}

\* Rows that differ in their field values: empty, short and long fields, dates in
\* several formats and months, a date that is none, times that are none, an
\* empty airport, a leg sequence that is no number
FieldPool ==
    {Row(<<"D","L">>, <<"1","2","3","4">>, <<"1">>, <<"1">>, <<"J">>,
        <<"J","F","K">>, <<"A","T","L">>, <<"2","0","D","e","c","2","5">>, <<"2","0","D","e","c","2","5">>,
        <<"9","3","0">>, <<"1","1","4","5">>, <<"7","3","J">>, <<"F","2","0","Y","1","4","0">>,
        <<"C","R","W","B">>),
     Row(<<>>, <<>>, <<"2">>, <<"2">>, <<>>,
        <<"P","H","X">>, <<>>, <<"n","o","t","-","a","-","d","a","t","e">>, <<>>,
        <<"5">>, <<>>, <<"7">>, <<>>,
        <<>>),
     Row(<<"D","L","X","X">>, <<"1","2","3","4","5">>, <<"1","2","3">>, <<"1","2","3">>, <<"J","J">>,
        <<"a","t","l">>, <<"J","F","K">>, <<"0","6","/","2","0","/","2","0","2","5">>, <<"2","0","2","5","-","0","6","-","2","1">>,
        <<"2","5","0","0">>, <<"1","2","3","4","5">>, <<"7","3","J","X">>, <<"F","2","0","C","3","0","W","4","0","Y","1","4","0","Z","Z","Z","Z">>,
        Rep("R", 156)),
     Row(<<"D","L">>, <<"7","7">>, <<"1">>, <<"1","A">>, <<"J">>,
        <<"J","F","K">>, <<"P","H","X">>, <<"1","5","-","F","e","b","-","2","5">>, <<"1","5","-","F","e","b","-","2","5">>,
        <<"0","7","0","0">>, <<"0","9","0","0">>, <<"3","2","0">>, <<"Y","1","8","0">>,
        <<"W","X">>)}

SeqsUpTo(S, n) == UNION {[1..k -> S] : k \in 0..n}

\* datetime.now() during the run
Clock == [y |-> 2026, m |-> 11, d |-> 2, hh |-> 0, mi |-> 0]

\* ------------------------------------------------------------ specifications
\* The state of a run that has not begun
Fresh ==
    /\ pc = "scan"
    /\ console = <<>>
    /\ airport_offsets = <<>>
    /\ first_date = NoneVal
    /\ last_date = NoneVal
    /\ all_legs = <<>>
    /\ shell_keys = <<>>
    /\ shells = <<>>
    /\ out_state = "absent"
    /\ out = <<>>
    /\ record_serial = 0
    /\ processed_shells = {}
    /\ current_shell_id = <<>>
    /\ idx = 0
    /\ iterations = 0
    /\ visits = <<>>
    /\ emitted = <<>>
    /\ onward = <<>>
    /\ chain_heads = {}

InitFrom(pool, n, libs) ==
    /\ file_exists \in BOOLEAN
    /\ rows \in (IF file_exists THEN SeqsUpTo(pool, n) ELSE {<<>>})
    /\ has_leg_seq_col \in (IF rows = <<>> THEN {TRUE} ELSE BOOLEAN)
    /\ libs_available \in libs
    /\ now = Clock
    /\ run = 1
    /\ prev_out = <<>>
    /\ Fresh

Init == InitFrom(ChainPool, MaxRows, {FALSE})

InitFields == InitFrom(FieldPool, MaxFieldRows, BOOLEAN)

\* ------------------------------------------------------------------ actions
\* print(f"Error: File {filename} not found!") with LOW_FILENAME
FileNotFoundLine == "Error: File data/LOW_1day_73J_test_v0.txt not found!"

\* The line main prints before it returns in step 1, without its leading mark
NoCodesLine == "No airport codes found. Check your LoW file."

\* Faulty variant of ScanNoCodes: main goes on to the output stage without codes
ScanNoCodes_goes_on ==
    /\ pc = "scan"
    /\ ~file_exists \/ AirportCodes(rows) = {}
    /\ pc' = "write"
    /\ console' = <<>>
    /\ UNCHANGED <<inputs, run, prev_out, chain_heads, airport_offsets, first_date, last_date, all_legs,
                   shell_keys, shells, out_state, out, record_serial, processed_shells,
                   current_shell_id, idx, iterations, visits, emitted, onward>>

\* main, step 1: the input file is missing, or holds no airport code
ScanNoCodes ==
    /\ pc = "scan"
    /\ ~file_exists \/ AirportCodes(rows) = {}
    /\ pc' = "returned"
    /\ console' = (IF file_exists THEN <<>> ELSE <<FileNotFoundLine>>) \o <<NoCodesLine>>
    /\ UNCHANGED <<inputs, run, prev_out, chain_heads, airport_offsets, first_date, last_date, all_legs,
                   shell_keys, shells, out_state, out, record_serial, processed_shells,
                   current_shell_id, idx, iterations, visits, emitted, onward>>

\* main, steps 1 and 2: the codes and the date range, then the offset table against
\* first_date; the set of codes is iterated in an order the run does not fix
ScanAndResolve ==
    /\ pc = "scan"
    /\ file_exists
    /\ AirportCodes(rows) # {}
    /\ \E all_dates \in {AllDates(rows)} :
           /\ first_date' = ScheduleFirstDate(all_dates, now)
           /\ last_date' = ScheduleLastDate(all_dates, now)
    /\ \E codes \in {AirportCodes(rows)} :
           \E order \in {SetToSeq(codes), Reverse(SetToSeq(codes))} :
               airport_offsets' = calculate_airport_utc_offsets(order, first_date', libs_available)
    /\ pc' = "read"
    /\ UNCHANGED <<inputs, run, prev_out, chain_heads, console, all_legs, shell_keys, shells, out_state, out,
                   record_serial, processed_shells, current_shell_id, idx, iterations,
                   visits, emitted, onward>>

\* read_low_csv: all_legs as the rows give them
ReadLegs == [i \in 1..Len(rows) |-> MakeLeg(rows[i], airport_offsets)]

\* read_low_csv: shells, each sorted
ReadShells(legs) ==
    [id \in {rows[i].LineNum : i \in 1..Len(rows)} |->
        StableSort(ShellRows(rows, id, Len(rows)), legs, has_leg_seq_col)]

\* main, step 3: read_low_csv returns
ReadLowCsv ==
    /\ pc = "read"
    /\ ~SortRaises(rows, has_leg_seq_col)
    /\ all_legs' = ReadLegs
    /\ shell_keys' = ShellKeys(rows)
    /\ shells' = ReadShells(all_legs')
    /\ pc' = "write"
    /\ UNCHANGED <<inputs, run, prev_out, chain_heads, console, airport_offsets, first_date, last_date, out_state,
                   out, record_serial, processed_shells, current_shell_id, idx, iterations,
                   visits, emitted, onward>>

\* main, step 3: the sort of read_low_csv raises ValueError, which nothing catches
ReadLowCsvRaises ==
    /\ pc = "read"
    /\ SortRaises(rows, has_leg_seq_col)
    /\ pc' = "aborted"
    /\ UNCHANGED <<inputs, run, prev_out, chain_heads, console, airport_offsets, first_date, last_date, all_legs,
                   shell_keys, shells, out_state, out, record_serial, processed_shells,
                   current_shell_id, idx, iterations, visits, emitted, onward>>

\* The lines written before the loop
HeaderLines(legs, clock) ==
    <<Header1>> \o Rep(ZeroLine, 4)
    \o <<Header2(first_op_date(legs, clock), last_op_date(legs, clock), clock)>>
    \o Rep(ZeroLine, 4)

\* record_serial before the first record
FirstSerial == 3

\* write_ssim_with_segments up to the while loop
WriteHeaders ==
    /\ pc = "write"
    /\ out_state' = IF Len(shell_keys) = 0 THEN "closed" ELSE "open"
    /\ out' = HeaderLines(all_legs, now)
    /\ record_serial' = FirstSerial
    /\ processed_shells' = {}
    /\ current_shell_id' = IF Len(shell_keys) = 0 THEN current_shell_id ELSE shell_keys[1]
    /\ pc' = IF Len(shell_keys) = 0 THEN "returned" ELSE "loop"
    /\ UNCHANGED <<inputs, run, prev_out, chain_heads, console, airport_offsets, first_date, last_date, all_legs,
                   shell_keys, shells, idx, iterations, visits, emitted, onward>>

\* The condition of the while loop
LoopCondition(processed, keys) == Cardinality(processed) < Len(keys)

\* The head of one iteration: the current shell is marked as processed
LoopBegin ==
    /\ pc = "loop"
    /\ LoopCondition(processed_shells, shell_keys)
    /\ processed_shells' = processed_shells \cup {current_shell_id}
    /\ iterations' = iterations + 1
    /\ visits' = Append(visits, current_shell_id)
    /\ idx' = 1
    /\ pc' = "legs"
    /\ UNCHANGED <<inputs, run, prev_out, chain_heads, console, airport_offsets, first_date, last_date, all_legs,
                   shell_keys, shells, out_state, out, record_serial, current_shell_id,
                   emitted, onward>>

\* Faulty variant of NextLeg: the connecting shell is asked for every leg, also when the
\* shell has a next leg
NextLeg_connecting_first(keys, shell_map, legs, processed, current, i) ==
    LET current_shell_legs == shell_map[current]
        leg == legs[current_shell_legs[i]]
        connecting_shell_id ==
            find_connecting_shell(keys, shell_map, legs, processed, leg.ArvlSta)
    IN  IF Truthy(connecting_shell_id) /\ Len(shell_map[connecting_shell_id.id]) > 0
        THEN shell_map[connecting_shell_id.id][1]
        ELSE IF i + 1 <= Len(current_shell_legs) THEN current_shell_legs[i + 1]
        ELSE 0

\* next_leg of the leg at position i of the current shell: the position in all_legs
\* of the next leg of the shell, else of the first leg of the connecting shell, else
\* 0 for None
NextLeg(keys, shell_map, legs, processed, current, i) ==
    LET current_shell_legs == shell_map[current]
        leg == legs[current_shell_legs[i]]
        connecting_shell_id ==
            find_connecting_shell(keys, shell_map, legs, processed, leg.ArvlSta)
    IN  IF i + 1 <= Len(current_shell_legs) THEN current_shell_legs[i + 1]
        ELSE IF Truthy(connecting_shell_id)
             THEN (IF Len(shell_map[connecting_shell_id.id]) > 0
                   THEN shell_map[connecting_shell_id.id][1] ELSE 0)
        ELSE 0

LegOrNone(legs, i) == IF i = 0 THEN NoneVal ELSE legs[i]

\* Faulty variant of LegLines: record_serial is not advanced between the two records
LegLines_one_serial(leg, next_leg, has_col, serial) ==
    <<Type3Record(leg, next_leg, has_col, serial), Type4Record(leg, has_col, serial)>>

\* Faulty variant of LegLines: the segment record comes before the flight leg record
LegLines_segment_first(leg, next_leg, has_col, serial) ==
    <<Type4Record(leg, has_col, serial + 1), Type3Record(leg, next_leg, has_col, serial)>>

\* The two records of one leg
LegLines(leg, next_leg, has_col, serial) ==
    <<Type3Record(leg, next_leg, has_col, serial), Type4Record(leg, has_col, serial + 1)>>

\* Faulty variant of WriteLeg: the leg loop is left after one leg, for the next shell
WriteLeg_then_move ==
    /\ pc = "legs"
    /\ LET li == shells[current_shell_id][idx]
           nx == NextLeg(shell_keys, shells, all_legs, processed_shells, current_shell_id, idx)
       IN  /\ out' = out \o LegLines(all_legs[li], LegOrNone(all_legs, nx),
                                     has_leg_seq_col, record_serial)
           /\ emitted' = Append(emitted, li)
           /\ onward' = Append(onward, nx)
    /\ record_serial' = record_serial + 2
    /\ idx' = idx + 1
    /\ pc' = "move"
    /\ UNCHANGED <<inputs, run, prev_out, chain_heads, console, airport_offsets, first_date, last_date, all_legs,
                   shell_keys, shells, out_state, processed_shells, current_shell_id,
                   iterations, visits>>

\* One pass of the for loop: the Type-3 and the Type-4 record of one leg
WriteLeg ==
    /\ pc = "legs"
    /\ LET li == shells[current_shell_id][idx]
           nx == NextLeg(shell_keys, shells, all_legs, processed_shells, current_shell_id, idx)
       IN  /\ out' = out \o LegLines(all_legs[li], LegOrNone(all_legs, nx),
                                     has_leg_seq_col, record_serial)
           /\ emitted' = Append(emitted, li)
           /\ onward' = Append(onward, nx)
    /\ record_serial' = record_serial + 2
    /\ idx' = idx + 1
    /\ pc' = IF idx + 1 <= Len(shells[current_shell_id]) THEN "legs" ELSE "move"
    /\ UNCHANGED <<inputs, run, prev_out, chain_heads, console, airport_offsets, first_date, last_date, all_legs,
                   shell_keys, shells, out_state, processed_shells, current_shell_id,
                   iterations, visits>>

\* Faulty variant of NextShell: with no connection, the first shell of all is taken
NextShell_first_key(keys, shell_map, legs, processed, current) ==
    LET current_shell_legs == shell_map[current]
        last_leg == legs[current_shell_legs[Len(current_shell_legs)]]
        next_shell_id == find_connecting_shell(keys, shell_map, legs, processed, last_leg.ArvlSta)
    IN  IF ~LoopCondition(processed, keys) THEN current
        ELSE IF Truthy(next_shell_id) THEN next_shell_id.id
        ELSE keys[1]

\* Faulty variant of NextShell: with no connection, the last unprocessed shell is taken
NextShell_last_unprocessed(keys, shell_map, legs, processed, current) ==
    LET current_shell_legs == shell_map[current]
        last_leg == legs[current_shell_legs[Len(current_shell_legs)]]
        next_shell_id == find_connecting_shell(keys, shell_map, legs, processed, last_leg.ArvlSta)
        unprocessed == Unprocessed(keys, processed)
    IN  IF ~LoopCondition(processed, keys) THEN current
        ELSE IF Truthy(next_shell_id) THEN next_shell_id.id
        ELSE IF Len(unprocessed) > 0 THEN unprocessed[Len(unprocessed)]
        ELSE current

\* Faulty variant of NextShell: the first unprocessed shell is taken before a connection
NextShell_unprocessed_first(keys, shell_map, legs, processed, current) ==
    LET current_shell_legs == shell_map[current]
        last_leg == legs[current_shell_legs[Len(current_shell_legs)]]
        next_shell_id == find_connecting_shell(keys, shell_map, legs, processed, last_leg.ArvlSta)
        unprocessed == Unprocessed(keys, processed)
    IN  IF ~LoopCondition(processed, keys) THEN current
        ELSE IF Len(unprocessed) > 0 THEN unprocessed[1]
        ELSE IF Truthy(next_shell_id) THEN next_shell_id.id
        ELSE current

\* The next current_shell_id: the connecting shell, else the first unprocessed one
NextShell(keys, shell_map, legs, processed, current) ==
    LET current_shell_legs == shell_map[current]
        last_leg == legs[current_shell_legs[Len(current_shell_legs)]]
        next_shell_id == find_connecting_shell(keys, shell_map, legs, processed, last_leg.ArvlSta)
        unprocessed == Unprocessed(keys, processed)
    IN  IF ~LoopCondition(processed, keys) THEN current
        ELSE IF Truthy(next_shell_id) THEN next_shell_id.id
        ELSE IF Len(unprocessed) > 0 THEN unprocessed[1]
        ELSE current

\* Whether the move to the next shell takes the branch "Starting new chain": shells
\* are left and find_connecting_shell gives nothing that counts as true
StartsNewChain(keys, shell_map, legs, processed, current) ==
    LET current_shell_legs == shell_map[current]
        last_leg == legs[current_shell_legs[Len(current_shell_legs)]]
        next_shell_id == find_connecting_shell(keys, shell_map, legs, processed, last_leg.ArvlSta)
    IN  /\ LoopCondition(processed, keys)
        /\ ~Truthy(next_shell_id)
        /\ Len(Unprocessed(keys, processed)) > 0

\* The tail of one iteration: move to the next shell of the chain
MoveNext ==
    /\ pc = "move"
    /\ current_shell_id' = NextShell(shell_keys, shells, all_legs, processed_shells,
                                     current_shell_id)
    /\ chain_heads' = IF StartsNewChain(shell_keys, shells, all_legs, processed_shells,
                                        current_shell_id)
                      THEN chain_heads \cup {current_shell_id'}
                      ELSE chain_heads
    /\ pc' = "loop"
    /\ UNCHANGED <<inputs, run, prev_out, console, airport_offsets, first_date, last_date, all_legs,
                   shell_keys, shells, out_state, out, record_serial, processed_shells, idx,
                   iterations, visits, emitted, onward>>

\* The lines written after the loop
TrailerLines(clock, serial) ==
    Rep(ZeroLine, 4) \o <<Type5Record(clock, serial)>> \o Rep(ZeroLine, 14)

\* The while loop ends: the trailer, and the file is closed
WriteTrailer ==
    /\ pc = "loop"
    /\ ~LoopCondition(processed_shells, shell_keys)
    /\ out' = out \o TrailerLines(now, record_serial)
    /\ out_state' = "closed"
    /\ pc' = "done"
    /\ UNCHANGED <<inputs, run, prev_out, chain_heads, console, airport_offsets, first_date, last_date, all_legs,
                   shell_keys, shells, record_serial, processed_shells, current_shell_id,
                   idx, iterations, visits, emitted, onward>>

\* A second run of main() on the same file, with the same libraries and clock
Rerun ==
    /\ pc = "done"
    /\ run = 1
    /\ run' = 2
    /\ prev_out' = out
    /\ pc' = "scan"
    /\ console' = <<>>
    /\ airport_offsets' = <<>>
    /\ first_date' = NoneVal
    /\ last_date' = NoneVal
    /\ all_legs' = <<>>
    /\ shell_keys' = <<>>
    /\ shells' = <<>>
    /\ out_state' = "absent"
    /\ out' = <<>>
    /\ record_serial' = 0
    /\ processed_shells' = {}
    /\ current_shell_id' = <<>>
    /\ idx' = 0
    /\ iterations' = 0
    /\ visits' = <<>>
    /\ emitted' = <<>>
    /\ onward' = <<>>
    /\ chain_heads' = {}
    /\ UNCHANGED inputs

Next ==
    \/ ScanNoCodes
    \/ ScanAndResolve
    \/ ReadLowCsv
    \/ ReadLowCsvRaises
    \/ WriteHeaders
    \/ LoopBegin
    \/ WriteLeg
    \/ MoveNext
    \/ WriteTrailer

NextTwice == Next \/ Rerun

\* One run on an input drawn from ChainPool
Spec == Init /\ [][Next]_vars

\* One run on an input drawn from FieldPool
SpecFields == InitFields /\ [][Next]_vars

\* Two runs on the same input
SpecTwice == Init /\ [][NextTwice]_vars

\* Spellings of airports for one row: every code of the four zone sets, codes of
\* no zone set, and codes in lower case or with a blank
ZoneStations ==
    eastern_airports \cup central_airports \cup mountain_airports \cup pacific_airports
    \cup {<<"H","N","L">>, <<"X","X">>, <<"L","A","X","X">>, <<" ","L","A","X">>,
          <<"p","h","x">>, <<"d","e","n">>, <<"h","n","l">>}

\* A date of month m as the file spells it, in two of the formats
ZoneDateText(m, d) ==
    IF d = 1
    THEN <<"2","0","2","5","-">> \o zfill(str(m), 2) \o <<"-">> \o zfill(str(d), 2)
    ELSE zfill(str(m), 2) \o <<"/">> \o zfill(str(d), 2) \o <<"/","2","0","2","5">>

\* One row that departs from sta on day d of month m
ZoneRow(sta, m, d) ==
    Row(<<"D","L">>, <<"1","0","0">>, <<"1">>, <<"1">>, <<"J">>, sta, <<>>,
        ZoneDateText(m, d), ZoneDateText(m, d), <<"9","3","0">>, <<"1","1","4","5">>,
        <<"7","3","J">>, <<"F","2","0","Y","1","4","0">>, <<"C","R","W","B">>)

\* A file of one row, for every station spelling and every month of the year
InitZones ==
    /\ file_exists = TRUE
    /\ \E sta \in ZoneStations, m \in 1..12, d \in {1, 28} : rows = <<ZoneRow(sta, m, d)>>
    /\ has_leg_seq_col = TRUE
    /\ libs_available \in BOOLEAN
    /\ now = Clock
    /\ run = 1
    /\ prev_out = <<>>
    /\ Fresh

\* main, steps 1 to 3
NextZones == ScanAndResolve \/ ReadLowCsv

\* The scan, the offset table and the legs of a one-row file of every airport and month
SpecZones == InitZones /\ [][NextZones]_vars

\* A date text that no format parses
NotADate == <<"n","o","t","-","a","-","d","a","t","e">>

\* Times as the file spells them: short, empty and full ones, an hour and a minute
\* out of range, too many digits, and an hour and a minute that are no number
TimeTexts ==
    {<<"9","3","0">>, <<"2","3","5","9">>, <<>>, <<"5">>,
     <<"2","5","0","0">>, <<"2","4","0","0">>, <<"1","2","6","0">>, <<"1","2","3","4","5">>,
     <<"a","b","3","0">>, <<"1","2","x","0">>}

\* One row with the given dates and times
TimeRow(ddate, adate, dtime, atime) ==
    Row(<<"D","L">>, <<"1","0","0">>, <<"1">>, <<"1">>, <<"J">>, <<"J","F","K">>, <<"A","T","L">>,
        ddate, adate, dtime, atime,
        <<"7","3","J">>, <<"F","2","0","Y","1","4","0">>, <<"C","R","W","B">>)

\* A file of one row, for every pair of times and for dates that parse or do not
InitTimes ==
    /\ file_exists = TRUE
    /\ \E ddate \in {<<"2","0","D","e","c","2","5">>, NotADate},
          adate \in {<<"2","0","2","5","-","1","2","-","2","1">>, <<>>},
          dtime \in TimeTexts, atime \in TimeTexts :
           rows = <<TimeRow(ddate, adate, dtime, atime)>>
    /\ has_leg_seq_col = TRUE
    /\ libs_available = FALSE
    /\ now = Clock
    /\ run = 1
    /\ prev_out = <<>>
    /\ Fresh

\* The scan, the offset table and the legs of a one-row file of every pair of times
SpecTimes == InitTimes /\ [][NextZones]_vars

\* ------------------------------------------------------------------- claims
\* The loop of write_ssim_with_segments has been entered
Writing == pc \in {"loop", "legs", "move", "done"}

\* The Type-3 and the Type-4 line of the k-th leg written (k from 1): ten lines
\* precede the first record
Type3Line(k) == out[9 + 2 * k]

Type4Line(k) == out[10 + 2 * k]

\* The record serial a line carries at positions 195-200
SerialOf(line) == DecVal(SubSeq(line, 195, 200))

NoRepeat(s) == \A i, j \in 1..Len(s) : i # j => s[i] # s[j]

Range(s) == {s[i] : i \in 1..Len(s)}

\* C1: write_ssim_with_segments visits each shell exactly once and writes exactly
\* one Type-3/Type-4 pair per leg of the input: no shell and no leg occurs twice
\* while it writes, every written pair is the pair of the leg it stands for, and
\* when it is done every shell has been visited and every leg written.
C1_EachLegOnce ==
    Writing =>
        /\ NoRepeat(visits)
        /\ NoRepeat(emitted)
        /\ Range(emitted) \subseteq 1..Len(rows)
        /\ Len(out) = 10 + 2 * Len(emitted) + (IF pc = "done" THEN 19 ELSE 0)
        /\ \A k \in 1..Len(emitted) :
               /\ Type3Line(k)[1] = "3"
               /\ SubSeq(Type3Line(k), 2, 14) = SubSeq(Type4Line(k), 2, 14)
               /\ Type4Line(k) = Type4Record(all_legs[emitted[k]], has_leg_seq_col, 2 + 2 * k)
        /\ \A i \in 1..Len(out) : out[i][1] \in {"3", "4"} => i \in 11..(10 + 2 * Len(emitted))
        /\ pc = "done" =>
               /\ Range(visits) = Range(shell_keys)
               /\ Range(emitted) = 1..Len(rows)
               /\ Len(emitted) = Len(rows)

\* Three rotations, chained in another order than they were inserted, all written
C1_Witness ==
    /\ pc = "done"
    /\ Len(shell_keys) = 3
    /\ visits # shell_keys
    /\ Len(emitted) = 3

\* C2: the serials on the Type-3, Type-4 and Type-5 records are 3, 4, 5, ... in the
\* order written: the k-th leg (k from 0) carries 3+2k and 4+2k, the trailer 3+2N,
\* and the header and filler lines take no serial.
C2_SerialsContiguous ==
    Writing =>
        /\ record_serial = FirstSerial + 2 * Len(emitted)
        /\ \A k \in 1..Len(emitted) :
               /\ AllDigits(SubSeq(Type3Line(k), 195, 200))
               /\ SerialOf(Type3Line(k)) = 3 + 2 * (k - 1)
               /\ AllDigits(SubSeq(Type4Line(k), 195, 200))
               /\ SerialOf(Type4Line(k)) = 4 + 2 * (k - 1)
        /\ pc = "done" =>
               /\ out[Len(out) - 14][1] = "5"
               /\ SerialOf(out[Len(out) - 14]) = 3 + 2 * Len(rows)

\* Three legs and the trailer are written
C2_Witness ==
    /\ pc = "done"
    /\ Len(emitted) = 3
    /\ SerialOf(out[Len(out) - 14]) = 9

\* C3: every line written is exactly 200 characters long, whatever the lengths of
\* the fields and also with an offset that is None.
C3_LinesAre200 == \A i \in 1..Len(out) : Len(out[i]) = 200

\* A leg with an empty airport (its offset is None) and empty fields, and a leg
\* with fields longer than their slots, are written and the file is complete
C3_Witness ==
    /\ pc = "done"
    /\ \E k \in 1..Len(emitted) :
           /\ all_legs[emitted[k]].ArvlUTCOffset = NoneVal
           /\ all_legs[emitted[k]].Aln = <<>>
    /\ \E k \in 1..Len(emitted) :
           /\ Len(all_legs[emitted[k]].ReasonCode) > 155
           /\ Len(all_legs[emitted[k]].FltNum) > 4

\* The shell of the k-th leg written, and the shells visited when it was written
ShellOf(k) == all_legs[emitted[k]].LineNum

VisitedAt(k) ==
    LET m == CHOOSE j \in 1..Len(visits) : visits[j] = ShellOf(k)
    IN  {visits[j] : j \in 1..m}

IsLastOfShell(k) == shells[ShellOf(k)][Len(shells[ShellOf(k)])] = emitted[k]

\* The shells, by their position in insertion order, that are unvisited when the
\* k-th leg is written and whose first leg departs where that leg arrives
Qualifying(k) ==
    {j \in 1..Len(shell_keys) :
        /\ shell_keys[j] \notin VisitedAt(k)
        /\ upper(all_legs[shells[shell_keys[j]][1]].DeptSta)
               = upper(all_legs[emitted[k]].ArvlSta)}

FirstQualifying(k) == CHOOSE j \in Qualifying(k) : \A i \in Qualifying(k) : j <= i

\* The onward fields of a Type-3 line are those of leg, or blank for None
OnwardFieldsAre(line, leg) ==
    /\ SubSeq(line, 138, 140) = pad_right(raw_onward_airline(leg), 3)
    /\ SubSeq(line, 141, 144) = pad_left(raw_onward_fltno(leg), 4, " ")

\* C4: the Type-3 record of the last leg of a shell carries the airline and flight
\* number of the first leg of the earliest inserted shell that is unvisited at that
\* moment and departs (ignoring case) where the leg arrives, and blanks when no
\* shell qualifies.
C4_OnwardOfLastLeg ==
    Writing =>
        \A k \in 1..Len(emitted) :
            IsLastOfShell(k) =>
                OnwardFieldsAre(Type3Line(k),
                                IF Qualifying(k) = {} THEN NoneVal
                                ELSE all_legs[shells[shell_keys[FirstQualifying(k)]][1]])

\* The 'Leg Seq num' of a row is missing or is no number
MalformedLegSeq(i) == ~has_leg_seq_col \/ IntOrError(rows[i].LegSeqNum) = -1

\* C5: a row whose 'Leg Seq num' is missing or non-numeric is recovered locally: the
\* run does not abort, the row sorts as 1, and the row is still written.
C5_MalformedLegSeqRecovered ==
    \A i \in 1..Len(rows) :
        MalformedLegSeq(i) =>
            /\ pc # "aborted"
            /\ pc = "done" => i \in Range(emitted)

\* The first and last operational date on the Type-2 header, positions 15-21 and 22-28
HeaderFirstDate == SubSeq(out[6], 15, 21)

HeaderLastDate == SubSeq(out[6], 22, 28)

\* C6: the dates of the Type-2 header fall back to (now, now + 1 day) only if no row
\* has a parseable 'Dept Date' or 'Arvl Date'; with one such date, whatever the
\* times, both are dates of the input.
C6_DateRangeFromInput ==
    (Len(out) >= 6 /\ AllDates(rows) # {}) =>
        /\ HeaderFirstDate \in {strftime_dby(d) : d \in AllDates(rows)}
        /\ HeaderLastDate \in {strftime_dby(d) : d \in AllDates(rows)}

\* C7: a row whose 'Dept Date' is "not-a-date" does not abort the run (the run aborts
\* only on a leg sequence that is no number); its departure datetime is None, and
\* its Type-3 record is written with the zero-padded 'Dept Time' at positions 40-43
\* and 44-47 and with 14 blanks at positions 15-28.
C7_BadDeptDateStillWritten ==
    /\ pc = "aborted" =>
           \E i \in 1..Len(rows) : has_leg_seq_col /\ IntOrError(rows[i].LegSeqNum) = -1
    /\ \A i \in 1..Len(all_legs) :
           rows[i].DeptDate = NotADate => all_legs[i].DeptDateTime = NoneVal
    /\ \A k \in 1..Len(emitted) :
           rows[emitted[k]].DeptDate = NotADate =>
               /\ SubSeq(Type3Line(k), 15, 28) = Rep(" ", 14)
               /\ SubSeq(Type3Line(k), 40, 43) = SubSeq(zfill(rows[emitted[k]].DeptTime, 4), 1, 4)
               /\ SubSeq(Type3Line(k), 44, 47) = SubSeq(zfill(rows[emitted[k]].DeptTime, 4), 1, 4)
    /\ pc = "done" =>
           \A i \in 1..Len(rows) : rows[i].DeptDate = NotADate => i \in Range(emitted)

\* A row with the date "not-a-date" and the time "5" is written as 0005
C7_Witness ==
    /\ pc = "done"
    /\ \E k \in 1..Len(emitted) :
           /\ rows[emitted[k]].DeptDate = NotADate
           /\ SubSeq(Type3Line(k), 40, 43) = <<"0","0","0","5">>

\* C8: the chaining loop terminates: each iteration begins at a shell not yet
\* visited and marks it, so the iterations number the visited shells, never exceed
\* the shells, and are as many as the shells when the trailer is written; the
\* inner loop stays within the legs of its shell.
C8_LoopTerminates ==
    Writing =>
        /\ iterations = Cardinality(processed_shells)
        /\ iterations <= Len(shell_keys)
        /\ pc \in {"legs", "move"} => current_shell_id \in processed_shells
        /\ pc = "legs" => idx \in 1..Len(shells[current_shell_id])
        /\ (pc = "loop" /\ LoopCondition(processed_shells, shell_keys)) =>
               /\ current_shell_id \in Range(shell_keys)
               /\ current_shell_id \notin processed_shells
        /\ pc = "done" =>
               /\ iterations = Len(shell_keys)
               /\ out[Len(out) - 14][1] = "5"

\* A shell that closes on itself (JFK -> ATL, ATL -> JFK) beside another shell
C8_Witness ==
    /\ pc = "done"
    /\ iterations = 2
    /\ \E j \in 1..Len(shell_keys) :
           LET legs == shells[shell_keys[j]]
           IN  upper(all_legs[legs[Len(legs)]].ArvlSta) = upper(all_legs[legs[1]].DeptSta)

SideSta(i, side) == IF side = "dept" THEN all_legs[i].DeptSta ELSE all_legs[i].ArvlSta

SideOffset(i, side) ==
    IF side = "dept" THEN all_legs[i].DeptUTCOffset ELSE all_legs[i].ArvlUTCOffset

SideDate(i, side) ==
    IF side = "dept" THEN parse_flexible_date(rows[i].DeptDate)
    ELSE parse_flexible_date(rows[i].ArvlDate)

\* C10: the offset table is computed against one reference date, the earliest
\* parseable date of the input, so two legs that use the same uppercased airport
\* code, on either side and whatever their own dates, carry the same offset.
C10_OneOffsetPerAirport ==
    /\ (pc \notin {"scan", "returned"} /\ AllDates(rows) # {}) =>
           /\ first_date \in AllDates(rows)
           /\ \A d \in AllDates(rows) : DtKey(first_date) <= DtKey(d)
    /\ \A i, j \in 1..Len(all_legs) : \A s, t \in {"dept", "arvl"} :
           upper(SideSta(i, s)) = upper(SideSta(j, t)) => SideOffset(i, s) = SideOffset(j, t)
    /\ \A i \in 1..Len(all_legs) : \A s \in {"dept", "arvl"} :
           SideSta(i, s) # <<>> =>
               SideOffset(i, s) = OffsetFor(upper(SideSta(i, s)), first_date, libs_available)

\* Two legs share an airport, one in winter and one in summer, spelled differently
C10_Witness ==
    /\ pc = "done"
    /\ \E i, j \in 1..Len(all_legs) : \E s, t \in {"dept", "arvl"} :
           /\ SideSta(i, s) # SideSta(j, t)
           /\ upper(SideSta(i, s)) = upper(SideSta(j, t))
           /\ SideDate(i, s) # NoneVal
           /\ SideDate(j, t) # NoneVal
           /\ is_dst(SideDate(i, s)) # is_dst(SideDate(j, t))
           /\ SideOffset(i, s) # NoneVal
           /\ SideOffset(i, s) = SideOffset(j, t)

\* read_low_csv has returned its two results
ReadReturned == pc \in {"write", "loop", "legs", "move", "done"}

\* The integer leg sequence number the sort of read_low_csv compares
LegSeqInt(i) == SortKey(all_legs[i], has_leg_seq_col)

\* C11: after read_low_csv returns, within every shell the integer leg sequence
\* numbers of consecutive legs are non-decreasing, whatever the order of the rows
\* was; every shell holds the rows of its rotation id, each once, and legs of
\* equal number keep the order of the rows
C11_ShellsSorted ==
    ReadReturned =>
        \A id \in DOMAIN shells :
            /\ Range(shells[id]) = {i \in 1..Len(rows) : rows[i].LineNum = id}
            /\ NoRepeat(shells[id])
            /\ \A k \in 1..(Len(shells[id]) - 1) :
                   /\ LegSeqInt(shells[id][k]) >= 0
                   /\ LegSeqInt(shells[id][k]) <= LegSeqInt(shells[id][k + 1])
                   /\ LegSeqInt(shells[id][k]) = LegSeqInt(shells[id][k + 1])
                          => shells[id][k] < shells[id][k + 1]

\* A shell whose second leg came before its first in the input
C11_Witness ==
    /\ ReadReturned
    /\ has_leg_seq_col
    /\ \E id \in DOMAIN shells :
           /\ Len(shells[id]) = 2
           /\ shells[id][1] > shells[id][2]
           /\ LegSeqInt(shells[id][1]) < LegSeqInt(shells[id][2])

\* The offset table has been built and main has gone on
Resolved == pc \in {"read", "write"}

\* The table entry of the code came from estimate_us_timezone_offset
Estimated(code) == ~(libs_available /\ HasTz(code))

\* C12: estimate_us_timezone_offset returns -7.0 (-420 minutes) for 'PHX' for every
\* reference date, whatever its month
C12_PhoenixAlwaysMST ==
    (Resolved /\ PHX \in DOMAIN airport_offsets /\ Estimated(PHX)) =>
        /\ first_date.m \in 1..12
        /\ airport_offsets[PHX] = Off(-420)
        /\ airport_offsets[PHX] = estimate_us_timezone_offset(PHX, first_date)

\* Phoenix estimated against a date of July, when the Mountain rule gives -6.0
C12_Witness ==
    /\ Resolved
    /\ ~libs_available
    /\ PHX \in DOMAIN airport_offsets
    /\ first_date.m = 7
    /\ airport_offsets[PHX] = Off(-420)

\* The daylight-saving offset of the zone set a code is in, in minutes
ZoneDstMinutes(code) ==
    IF code \in eastern_airports THEN -240
    ELSE IF code \in central_airports THEN -300
    ELSE IF code \in mountain_airports THEN -360
    ELSE -420

ZonedCodes ==
    (eastern_airports \cup central_airports \cup mountain_airports \cup pacific_airports)
    \ {PHX}

\* C13: for every code of the Eastern, Central, Mountain or Pacific set other than
\* 'PHX', estimate_us_timezone_offset returns the zone's daylight-saving offset
\* (-4.0, -5.0, -6.0, -7.0) when the reference month is 3 through 10, and the
\* zone's standard offset (-5.0, -6.0, -7.0, -8.0) when it is 11, 12, 1 or 2
C13_ZoneOffsetsByMonth ==
    Resolved =>
        \A code \in DOMAIN airport_offsets :
            (code \in ZonedCodes /\ Estimated(code)) =>
                /\ first_date.m \in 3..10 =>
                       airport_offsets[code] = Off(ZoneDstMinutes(code))
                /\ first_date.m \in {11, 12, 1, 2} =>
                       airport_offsets[code] = Off(ZoneDstMinutes(code) - 60)

\* A Pacific airport estimated against a date of March, the first month of the rule
C13_Witness ==
    /\ Resolved
    /\ first_date.m = 3
    /\ \E code \in DOMAIN airport_offsets :
           /\ code \in pacific_airports
           /\ Estimated(code)
           /\ airport_offsets[code] = Off(-420)

\* C14: for every code that is in none of the four zone sets,
\* estimate_us_timezone_offset returns the Eastern rule's value (-4.0 for months
\* 3 to 10, -5.0 otherwise); every code of the input has a numeric offset in the
\* table, and the run goes on to read the legs
C14_UnknownCodeIsEastern ==
    Resolved =>
        /\ DOMAIN airport_offsets = AirportCodes(rows)
        /\ \A code \in DOMAIN airport_offsets :
               /\ airport_offsets[code] # NoneVal
               /\ (code \notin (ZonedCodes \cup {PHX}) /\ Estimated(code)) =>
                      airport_offsets[code] =
                          (IF first_date.m \in 3..10 THEN Off(-240) ELSE Off(-300))

\* A code of no zone set estimated against a date of January
C14_Witness ==
    /\ Resolved
    /\ first_date.m = 1
    /\ \E code \in DOMAIN airport_offsets :
           /\ code \notin (ZonedCodes \cup {PHX})
           /\ airport_offsets[code] = Off(-300)

\* C15: when the input file is missing the run aborts before the output stage:
\* the scan reports the missing path and returns no codes, main returns without
\* read_low_csv or write_ssim_with_segments, and the output file is never opened
\* or written
C15_MissingFileNoOutput ==
    ~file_exists =>
        /\ pc \in {"scan", "returned"}
        /\ out_state = "absent"
        /\ out = <<>>
        /\ airport_offsets = <<>>
        /\ all_legs = <<>>
        /\ shell_keys = <<>>
        /\ record_serial = 0
        /\ pc = "returned" => console = <<FileNotFoundLine, NoCodesLine>>
        /\ pc = "scan" => console = <<>>

\* main has returned on a missing file
C15_Witness ==
    /\ ~file_exists
    /\ pc = "returned"
    /\ console[1] = FileNotFoundLine

\* The hour and the minute of the zero-padded time of a row, -1 when no number
HourOf(t) == IntOrError(SubSeq(zfill(t, 4), 1, 2))

MinuteOf(t) == IntOrError(SubSeq(zfill(t, 4), 3, Len(zfill(t, 4))))

TimeInRange(t) == HourOf(t) \in 0..23 /\ MinuteOf(t) \in 0..59

\* What one side of a row gives on its own: None without a date or with a time out
\* of range or no number, else the date at that time
SideDateTime(date_text, t) ==
    LET d == parse_flexible_date(date_text)
    IN  IF d = NoneVal \/ ~TimeInRange(t) THEN NoneVal
        ELSE [d EXCEPT !.hh = HourOf(t), !.mi = MinuteOf(t)]

\* C16: the departure and the arrival date-time of a row are constructed
\* independently: a side whose date parses but whose zero-padded HHMM time has an
\* hour or minute out of range or no number is null, the other side keeps its
\* value, and the row is still appended to the leg list and to its shell
C16_SidesIndependent ==
    ReadReturned =>
        /\ Len(all_legs) = Len(rows)
        /\ \A i \in 1..Len(rows) :
               /\ rows[i].LineNum \in DOMAIN shells
               /\ i \in Range(shells[rows[i].LineNum])
               /\ all_legs[i].DeptDateTime = SideDateTime(rows[i].DeptDate, rows[i].DeptTime)
               /\ all_legs[i].ArvlDateTime = SideDateTime(rows[i].ArvlDate, rows[i].ArvlTime)

\* A leg whose departure time fails on a date that parses, and whose arrival
\* date-time stands
C16_Witness ==
    /\ ReadReturned
    /\ \E i \in 1..Len(rows) :
           /\ parse_flexible_date(rows[i].DeptDate) # NoneVal
           /\ ~TimeInRange(rows[i].DeptTime)
           /\ all_legs[i].DeptDateTime = NoneVal
           /\ all_legs[i].ArvlDateTime # NoneVal
           /\ i \in Range(shells[rows[i].LineNum])

\* The kind of a line: "0" for the all-zero filler, else its record type
KindOf(line) ==
    IF line = ZeroLine THEN "0"
    ELSE IF line[1] \in {"1", "2", "3", "4", "5"} THEN line[1]
    ELSE "?"

\* The kinds of the lines of a complete output of n legs, in order
LayoutOf(n) ==
    <<"1">> \o Rep("0", 4) \o <<"2">> \o Rep("0", 4)
    \o [i \in 1..(2 * n) |-> IF i % 2 = 1 THEN "3" ELSE "4"]
    \o Rep("0", 4) \o <<"5">> \o Rep("0", 14)

PosInShell(k) ==
    CHOOSE p \in 1..Len(shells[ShellOf(k)]) : shells[ShellOf(k)][p] = emitted[k]

\* The leg after the k-th leg written, in the sorted order of its shell
NextInShell(k) == shells[ShellOf(k)][PosInShell(k) + 1]

\* C18: for every leg that is not the last of its shell, the onward airline and
\* flight number of its Type-3 record are those of the next leg of the same shell
\* in sorted order, whichever other shells are visited or unvisited
C18_OnwardWithinShell ==
    Writing =>
        \A k \in 1..Len(emitted) :
            ~IsLastOfShell(k) =>
                /\ onward[k] = NextInShell(k)
                /\ OnwardFieldsAre(Type3Line(k), all_legs[NextInShell(k)])
                /\ SortKey(all_legs[emitted[k]], has_leg_seq_col)
                       <= SortKey(all_legs[NextInShell(k)], has_leg_seq_col)

\* A leg with a next leg in its shell, written while an unvisited shell departs
\* from where it arrives
C18_Witness ==
    /\ Writing
    /\ \E k \in 1..Len(emitted) :
           /\ ~IsLastOfShell(k)
           /\ Qualifying(k) # {}
           /\ OnwardFieldsAre(Type3Line(k), all_legs[NextInShell(k)])
           /\ all_legs[NextInShell(k)].FltNum
                  # all_legs[shells[shell_keys[FirstQualifying(k)]][1]].FltNum

\* C19: the record pairs of the legs of one shell are written contiguously and in
\* the sorted leg order of the shell: between the first and the last written
\* record of a shell no record of another shell appears, whatever the order of
\* the chain is
C19_ShellContiguous ==
    Writing =>
        /\ \A a, c \in 1..Len(emitted) :
               (a < c /\ ShellOf(a) = ShellOf(c)) =>
                   /\ \A b \in a..c : ShellOf(b) = ShellOf(a)
                   /\ PosInShell(c) = PosInShell(a) + (c - a)
        /\ \A k \in 1..Len(emitted) :
               (k = 1 \/ ShellOf(k - 1) # ShellOf(k)) => PosInShell(k) = 1
        /\ \A k \in 1..(Len(emitted) - 1) :
               /\ ShellOf(k) # ShellOf(k + 1) => IsLastOfShell(k)
               /\ ShellOf(k) = ShellOf(k + 1) =>
                      SortKey(all_legs[emitted[k]], has_leg_seq_col)
                          <= SortKey(all_legs[emitted[k + 1]], has_leg_seq_col)

\* A rotation of two legs written after another rotation and before a third
\* record of neither
C19_Witness ==
    /\ Writing
    /\ Len(visits) = 2
    /\ Len(emitted) = 3
    /\ ShellOf(1) # ShellOf(2)
    /\ ShellOf(2) = ShellOf(3)
    /\ emitted[2] > emitted[3]

\* The first shell in insertion order that is unvisited when the k-th leg is written
FirstUnvisited(k) ==
    shell_keys[CHOOSE j \in 1..Len(shell_keys) :
                   /\ shell_keys[j] \notin VisitedAt(k)
                   /\ \A i \in 1..(j - 1) : shell_keys[i] \in VisitedAt(k)]

\* The k-th leg written ends its shell, unvisited shells remain and none of them
\* departs from where the leg arrives
ChainEndsAt(k) ==
    /\ IsLastOfShell(k)
    /\ VisitedAt(k) # Range(shell_keys)
    /\ Qualifying(k) = {}

\* C20: when a shell has just been written, unvisited shells remain and the first
\* departure airport of none of them equals the last arrival airport of the shell,
\* the chain restarts at the first unvisited shell in insertion order, and no
\* separator is written between the two chains: the next line written is the
\* Type-3 record of the first leg of that shell
C20_RestartWithoutSeparator ==
    Writing =>
        \A k \in 1..Len(emitted) :
            ChainEndsAt(k) =>
                /\ (k = Len(emitted) /\ pc = "loop") => current_shell_id = FirstUnvisited(k)
                /\ k < Len(emitted) =>
                       /\ emitted[k + 1] = shells[FirstUnvisited(k)][1]
                       /\ Len(out) >= 11 + 2 * k
                       /\ out[10 + 2 * k] = Type4Record(all_legs[emitted[k]], has_leg_seq_col,
                                                        2 + 2 * k)
                       /\ out[11 + 2 * k][1] = "3"
                       /\ out[11 + 2 * k] =
                              Type3Record(all_legs[shells[FirstUnvisited(k)][1]],
                                          LegOrNone(all_legs, onward[k + 1]),
                                          has_leg_seq_col, 3 + 2 * k)

\* A chain that ends with two rotations unvisited, the new chain begun
C20_Witness ==
    /\ Writing
    /\ Len(shell_keys) = 3
    /\ Len(emitted) >= 2
    /\ ChainEndsAt(1)
    /\ ShellOf(2) = FirstUnvisited(1)

\* The shell whose first leg is the onward leg of the k-th leg written
OnwardShell(k) == all_legs[onward[k]].LineNum

\* C21: the onward reference and the order of writing agree: whenever the last leg
\* of a shell records an onward flight taken from a connecting shell, that shell
\* is the one written next, the Type-3 record of its first leg directly after the
\* Type-4 record of the last leg; and a shell that starts a new chain is never
\* the onward of the leg written before it, whose onward fields are blank
C21_OnwardIsNextWritten ==
    Writing =>
        \A k \in 1..Len(emitted) :
            IsLastOfShell(k) =>
                /\ onward[k] # 0 =>
                       /\ OnwardShell(k) \notin VisitedAt(k)
                       /\ shells[OnwardShell(k)][1] = onward[k]
                       /\ OnwardFieldsAre(Type3Line(k), all_legs[onward[k]])
                       /\ (k = Len(emitted) /\ pc = "loop") => current_shell_id = OnwardShell(k)
                       /\ pc = "done" => k < Len(emitted)
                       /\ k < Len(emitted) =>
                              /\ emitted[k + 1] = onward[k]
                              /\ ShellOf(k + 1) \notin chain_heads
                              /\ out[10 + 2 * k] = Type4Record(all_legs[emitted[k]],
                                                               has_leg_seq_col, 2 + 2 * k)
                              /\ out[11 + 2 * k] =
                                     Type3Record(all_legs[onward[k]],
                                                 LegOrNone(all_legs, onward[k + 1]),
                                                 has_leg_seq_col, 3 + 2 * k)
                /\ k < Len(emitted) =>
                       /\ ShellOf(k + 1) \in chain_heads <=> onward[k] = 0
                       /\ ShellOf(k + 1) \in chain_heads =>
                              OnwardFieldsAre(Type3Line(k), NoneVal)

\* A connection to a shell that is not the first unvisited one, recorded as the
\* onward flight and written next
C21_Witness ==
    /\ Writing
    /\ \E k \in 1..(Len(emitted) - 1) :
           /\ IsLastOfShell(k)
           /\ onward[k] # 0
           /\ emitted[k + 1] = onward[k]
           /\ ShellOf(k + 1) # FirstUnvisited(k)
           /\ SubSeq(Type3Line(k), 138, 144) # Rep(" ", 7)

====
